---- MODULE Spec2Model ----
(***************************************************************************)
(* Model of the NKRO report encoder of keeb (src/hid.rs)                   *)
(*                                                                         *)
(* and of the key scanner KeebState (src/keeb.rs).                         *)
(*                                                                         *)
(* A report is the 21-byte array of NKROReport: byte 0 the modifier byte,  *)
(* byte 1 reserved, bytes 2..7 the boot scancode array, bytes 8..20 the    *)
(* 104-bit bitmap.  A KeyCode is modelled by its u8 discriminant, which is *)
(* what `kc as u8` yields.                                                 *)
(***************************************************************************)
EXTENDS Integers, Sequences, FiniteSets, TLC

VARIABLES
    report,  \* the NKROReport under construction
    keys,    \* the key codes pressed() was called with in this build
    sent,    \* the build returned last by from_iter: its codes and its report
    state,   \* KeebState.state, a u32 with one bit per switch
    pins,    \* what is_low() gave for each pin in the last update_state()
    scans    \* number of update_state() calls so far

vars == <<report, keys, sent, state, pins, scans>>

(* ------------------------------ bounds --------------------------------- *)

\* longest build explored when codes of every category are mixed
MaxLen == 4

\* longest build explored over the few codes of the long builds
MaxPressed == 7

\* highest usage of the pressed-sets without repeats (usages 4..MaxUsage)
MaxUsage == 11

\* longest build explored over all ordinary codes of the bitmap (4..103)
MaxArmLen == 2

\* longest build explored when one build is followed by another
MaxTwice == 3

\* pins 0..MaxVaried-1 and the last pin take every reading; the others read high
MaxVaried == 4

\* number of update_state() calls explored
MaxScans == 2

(* ----------------------------- key codes ------------------------------- *)

No == 0

ErrorRollOver == 1

PostFail == 2

ErrorUndefined == 3

KbA == ErrorUndefined + 1

KbB == KbA + 1

LCtrl == 224

RGui == 231

LShift == LCtrl + 1

\* first ordinary usage past the bitmap (0x68) and the last one inside it
KbF13 == 104

KbF12 == KbF13 - 1

ReportLen == 21

Byte == 0..255

\* KeyCode::is_modifier
is_modifier(kc) == LCtrl <= kc /\ kc <= RGui

\* the match of pressed(): No, the three error codes, modifiers, the rest
IsError(kc) == kc \in {ErrorRollOver, PostFail, ErrorUndefined}

IsOrdinary(kc) == kc # No /\ ~IsError(kc) /\ ~is_modifier(kc)

(* --------------------------- u8 arithmetic ----------------------------- *)

\* 1 << n on a u8
Shl1(n) == (2 ^ n) % 256

TestBit(b, i) == (b \div (2 ^ i)) % 2 = 1

RECURSIVE OrFrom(_, _, _)
OrFrom(a, b, i) ==
    IF i > 7 THEN 0
    ELSE (IF TestBit(a, i) \/ TestBit(b, i) THEN 2 ^ i ELSE 0) + OrFrom(a, b, i + 1)

\* a | b on u8
BitOr(a, b) == OrFrom(a, b, 0)

\* as_modifier_bit counting the offset from one (1 << (kc - LCtrl + 1))
as_modifier_bit_from_one(kc) == IF is_modifier(kc) THEN Shl1(kc - LCtrl + 1) ELSE 0

\* KeyCode::as_modifier_bit
as_modifier_bit(kc) == IF is_modifier(kc) THEN Shl1(kc - LCtrl) ELSE 0

(* ------------------------------ encoder -------------------------------- *)

\* NKROReport::default()
DefaultReport == [i \in 0..(ReportLen - 1) |-> 0]

\* set_all with the slice left open at the end (self.0[2..])
set_all_open(r, kc) == [i \in 0..(ReportLen - 1) |-> IF i >= 2 THEN kc ELSE r[i]]

\* fn set_all: every byte of self.0[2..8] becomes kc as u8
set_all(r, kc) == [i \in 0..(ReportLen - 1) |-> IF i >= 2 /\ i < 8 THEN kc ELSE r[i]]

\* the search started one byte early (self.0[1..])
ZeroSlotsFromReserved(r) == {i \in 1..(ReportLen - 1) : r[i] = 0}

\* self.0[2..].iter_mut().find(|c| **c == 0): the slice runs to the end of
\* the array, so the search covers bytes 2..20
ZeroSlots(r) == {i \in 2..(ReportLen - 1) : r[i] = 0}

\* the boot array searched from the back (rev().find()): its last zero byte
LastBootZero(r) ==
    LET boot == ZeroSlots(r) \cap (2..7)
    IN  IF boot # {} THEN CHOOSE i \in boot : \A j \in boot : i >= j
        ELSE CHOOSE i \in ZeroSlots(r) : \A j \in ZeroSlots(r) : i <= j

FirstZero(r) == CHOOSE i \in ZeroSlots(r) : \A j \in ZeroSlots(r) : i <= j

\* boot placement that skips a code already recorded in bytes 2..7
BootPlaceDedup(r, kc) ==
    IF \E i \in 2..7 : r[i] = kc THEN r
    ELSE IF ZeroSlots(r) # {} THEN [r EXCEPT ![FirstZero(r)] = kc]
    ELSE set_all(r, ErrorRollOver)

\* .map(|c| *c = kc as u8).unwrap_or_else(|| self.set_all(ErrorRollOver))
BootPlace(r, kc) ==
    IF ZeroSlots(r) # {} THEN [r EXCEPT ![FirstZero(r)] = kc]
    ELSE set_all(r, ErrorRollOver)

\* bits[j] = 1 << n: assignment in place of |=
AssignBits(r, j, n) == [r EXCEPT ![8 + j] = Shl1(n)]

\* bits[j] |= 1 << n, with bits = &mut self.0[8..]
OrBits(r, j, n) == [r EXCEPT ![8 + j] = BitOr(r[8 + j], Shl1(n))]

\* the match with its last arm written as the exclusive range 96..103
BitmapPlaceExclusive(r, kc_bit) ==
    CASE kc_bit >= 0  /\ kc_bit <= 3   -> r
      [] kc_bit >= 4  /\ kc_bit <= 7   -> OrBits(r, 0, kc_bit)
      [] kc_bit >= 8  /\ kc_bit <= 15  -> OrBits(r, 1, kc_bit - 8)
      [] kc_bit >= 16 /\ kc_bit <= 23  -> OrBits(r, 2, kc_bit - 16)
      [] kc_bit >= 24 /\ kc_bit <= 31  -> OrBits(r, 3, kc_bit - 24)
      [] kc_bit >= 32 /\ kc_bit <= 39  -> OrBits(r, 4, kc_bit - 32)
      [] kc_bit >= 40 /\ kc_bit <= 47  -> OrBits(r, 5, kc_bit - 40)
      [] kc_bit >= 48 /\ kc_bit <= 55  -> OrBits(r, 6, kc_bit - 48)
      [] kc_bit >= 56 /\ kc_bit <= 63  -> OrBits(r, 7, kc_bit - 56)
      [] kc_bit >= 64 /\ kc_bit <= 71  -> OrBits(r, 8, kc_bit - 64)
      [] kc_bit >= 72 /\ kc_bit <= 79  -> OrBits(r, 9, kc_bit - 72)
      [] kc_bit >= 80 /\ kc_bit <= 87  -> OrBits(r, 10, kc_bit - 80)
      [] kc_bit >= 88 /\ kc_bit <= 95  -> OrBits(r, 11, kc_bit - 88)
      [] kc_bit >= 96 /\ kc_bit < 103  -> OrBits(r, 12, kc_bit - 96)
      [] OTHER -> r

\* the match on kc_bit with its 13 range arms
BitmapPlace(r, kc_bit) ==
    CASE kc_bit >= 0  /\ kc_bit <= 3   -> r
      [] kc_bit >= 4  /\ kc_bit <= 7   -> OrBits(r, 0, kc_bit)
      [] kc_bit >= 8  /\ kc_bit <= 15  -> OrBits(r, 1, kc_bit - 8)
      [] kc_bit >= 16 /\ kc_bit <= 23  -> OrBits(r, 2, kc_bit - 16)
      [] kc_bit >= 24 /\ kc_bit <= 31  -> OrBits(r, 3, kc_bit - 24)
      [] kc_bit >= 32 /\ kc_bit <= 39  -> OrBits(r, 4, kc_bit - 32)
      [] kc_bit >= 40 /\ kc_bit <= 47  -> OrBits(r, 5, kc_bit - 40)
      [] kc_bit >= 48 /\ kc_bit <= 55  -> OrBits(r, 6, kc_bit - 48)
      [] kc_bit >= 56 /\ kc_bit <= 63  -> OrBits(r, 7, kc_bit - 56)
      [] kc_bit >= 64 /\ kc_bit <= 71  -> OrBits(r, 8, kc_bit - 64)
      [] kc_bit >= 72 /\ kc_bit <= 79  -> OrBits(r, 9, kc_bit - 72)
      [] kc_bit >= 80 /\ kc_bit <= 87  -> OrBits(r, 10, kc_bit - 80)
      [] kc_bit >= 88 /\ kc_bit <= 95  -> OrBits(r, 11, kc_bit - 88)
      [] kc_bit >= 96 /\ kc_bit <= 103 -> OrBits(r, 12, kc_bit - 96)
      [] OTHER -> r

\* self.0[0] = kc.as_modifier_bit(): assignment in place of |=
ModifierAssign(r, kc) == [r EXCEPT ![0] = as_modifier_bit(kc)]

\* the modifier arm: self.0[0] |= kc.as_modifier_bit()
ModifierPlace(r, kc) == [r EXCEPT ![0] = BitOr(r[0], as_modifier_bit(kc))]

\* pressed() that returns after the roll-over of a full boot array (bytes
\* 2..7) without reaching the bitmap
pressed_overflow_returns(r, kc) ==
    CASE kc = No -> r
      [] IsError(kc) -> set_all(r, kc)
      [] is_modifier(kc) -> ModifierPlace(r, kc)
      [] OTHER -> IF \E i \in 2..7 : r[i] = 0
                  THEN BitmapPlace(BootPlace(r, kc), kc)
                  ELSE set_all(r, ErrorRollOver)

\* pressed() with No handled like a global-error code (set_all(No))
pressed_no_clears(r, kc) ==
    CASE kc = No -> set_all(r, kc)
      [] IsError(kc) -> set_all(r, kc)
      [] is_modifier(kc) -> ModifierPlace(r, kc)
      [] OTHER -> BitmapPlace(BootPlace(r, kc), kc)

\* pub fn pressed
pressed(r, kc) ==
    CASE kc = No -> r
      [] IsError(kc) -> set_all(r, kc)
      [] is_modifier(kc) -> ModifierPlace(r, kc)
      [] OTHER -> BitmapPlace(BootPlace(r, kc), kc)

\* from_iter that drops a code already seen earlier in the sequence
RECURSIVE from_iter_dedup(_)
from_iter_dedup(s) ==
    IF s = <<>> THEN DefaultReport
    ELSE LET rest == SubSeq(s, 1, Len(s) - 1)
         IN  IF \E i \in 1..Len(rest) : rest[i] = s[Len(s)]
             THEN from_iter_dedup(rest)
             ELSE pressed(from_iter_dedup(rest), s[Len(s)])

\* fn from_iter: res = default(); for kc in iter { res.pressed(kc) }
RECURSIVE from_iter(_)
from_iter(s) ==
    IF s = <<>> THEN DefaultReport
    ELSE pressed(from_iter(SubSeq(s, 1, Len(s) - 1)), s[Len(s)])

\* as_bytes
as_bytes(r) == [i \in 1..ReportLen |-> r[i - 1]]

(* ---------------------------- key scanner ------------------------------ *)

\* pins: [DynPin; 21]
NumPins == 21

\* is_low() gives Ok(true), Ok(false) or Err(_)
PinLevels == {"low", "high", "err"}

\* a u32 is modelled by the set of its one-bits, positions 0..31
U32 == SUBSET (0..31)

\* the literals 0b0 and 0b1
Zero32 == {}

One32 == {0}

\* v << n on a u32: bits shifted past position 31 are lost
Shl32(v, n) == {b + n : b \in v} \cap (0..31)

\* a | b on u32
BitOr32(a, b) == a \cup b

\* a & b on u32
BitAnd32(a, b) == a \cap b

\* the body of the loop of update_state for pin i:
\*   Ok(_)  => self.state |= 0b1 << i   (any Ok, low or not)
\*   Err(_) => self.state &= 0b0 << i
PinArm(st, i, level) ==
    IF level = "err" THEN BitAnd32(st, Shl32(Zero32, i))
    ELSE BitOr32(st, Shl32(One32, i))

RECURSIVE UpdateLoop(_, _, _)
UpdateLoop(st, i, rd) ==
    IF i >= NumPins THEN st
    ELSE UpdateLoop(PinArm(st, i, rd[i]), i + 1, rd)

\* pub fn update_state: for i in 0..21 { match self.pins[i].is_low() ... }
update_state(st, rd) == UpdateLoop(st, 0, rd)

\* pub fn get_switch_state
get_switch_state(st, switch) == BitAnd32(st, Shl32(One32, switch)) # Zero32

(* --------------------------- state machine ----------------------------- *)

\* codes of every category offered to pressed()
KeyCodes == {No, ErrorRollOver, PostFail, ErrorUndefined, KbA, KbB, KbF12, KbF13}
            \cup LCtrl..RGui

\* codes of the long builds: the error codes, a modifier, two ordinary codes
\* inside the bitmap and one past it
LongCodes == {ErrorRollOver, PostFail, ErrorUndefined, LShift, KbA, KbB, KbF13}

\* ordinary usages of the pressed-sets without repeats
UsageCodes == KbA..MaxUsage

Range(s) == {s[i] : i \in 1..Len(s)}

\* codes of the repeated builds
TwiceCodes == {PostFail, LShift, KbA, KbF13}

\* pins whose reading is varied
VariedPins == 0..(MaxVaried - 1) \cup {NumPins - 1}

\* the readings of one update_state()
Readings ==
    {[i \in 0..(NumPins - 1) |-> IF i \in VariedPins THEN f[i] ELSE "high"] :
        f \in [VariedPins -> PinLevels]}

\* NKROReport::default() and KeebState::new (state: 0)
Init ==
    /\ report = DefaultReport
    /\ keys = <<>>
    /\ sent = [keys |-> <<>>, report |-> DefaultReport]
    /\ state = Zero32
    /\ pins = [i \in 0..(NumPins - 1) |-> "high"]
    /\ scans = 0

\* a new build starts from NKROReport::default()
Default ==
    /\ report' = DefaultReport
    /\ keys' = <<>>
    /\ UNCHANGED <<sent, state, pins, scans>>

\* one call of pressed(kc) on the report under construction
Pressed(kc) ==
    /\ report' = pressed(report, kc)
    /\ keys' = Append(keys, kc)
    /\ UNCHANGED <<sent, state, pins, scans>>

\* from_iter that goes on with the report of the build before
HandoffKeepsReport ==
    /\ sent' = [keys |-> keys, report |-> report]
    /\ report' = report
    /\ keys' = <<>>
    /\ UNCHANGED <<state, pins, scans>>

\* from_iter returns res; the next from_iter starts from Self::default()
Handoff ==
    /\ sent' = [keys |-> keys, report |-> report]
    /\ report' = DefaultReport
    /\ keys' = <<>>
    /\ UNCHANGED <<state, pins, scans>>

\* one call of update_state() with the readings rd
UpdateState(rd) ==
    /\ scans < MaxScans
    /\ state' = update_state(state, rd)
    /\ pins' = rd
    /\ scans' = scans + 1
    /\ UNCHANGED <<report, keys, sent>>

Next ==
    \/ Default
    \/ \E kc \in KeyCodes : Len(keys) < MaxLen /\ Pressed(kc)

Spec == Init /\ [][Next]_vars

NextLong ==
    \/ Default
    \/ \E kc \in LongCodes : Len(keys) < MaxPressed /\ Pressed(kc)

SpecLong == Init /\ [][NextLong]_vars

NextDistinct ==
    \/ Default
    \/ \E kc \in UsageCodes \ Range(keys) : Pressed(kc)

SpecDistinct == Init /\ [][NextDistinct]_vars

\* every ordinary code that has an arm in the bitmap match (4..103)
ArmCodes == KbA..KbF12

NextArms ==
    \/ Default
    \/ \E kc \in ArmCodes : Len(keys) < MaxArmLen /\ Pressed(kc)

SpecArms == Init /\ [][NextArms]_vars

NextTwice ==
    \/ Handoff
    \/ \E kc \in TwiceCodes : Len(keys) < MaxTwice /\ Pressed(kc)

SpecTwice == Init /\ [][NextTwice]_vars

NextKeeb == \E rd \in Readings : UpdateState(rd)

SpecKeeb == Init /\ [][NextKeeb]_vars

(* ------------------------ reading a report ----------------------------- *)

BootIdx == 2..7

BitmapIdx == 8..(ReportLen - 1)

\* the bitmap holds ReportCount = 104 one-bit fields (descriptor, 0x95 0x68)
BitmapBits == 104

\* Usage Minimum of the bitmap field in NKRO_REPORT_DESCRIPTOR (0x19 0x00)
UsageMinimum == 0

\* bit p of the bitmap: byte 8 + p / 8, bit p % 8
BitmapBit(r, p) == TestBit(r[8 + (p \div 8)], p % 8)

\* bitmap position of a usage, by the descriptor; usages 0..3 have no key
BitPos(kc) == kc - UsageMinimum

InBitmap(kc) == kc >= 4 /\ BitPos(kc) < BitmapBits

AllOrdinary(s) == \A i \in 1..Len(s) : IsOrdinary(s[i])

Distinct(s) == \A i, j \in 1..Len(s) : i # j => s[i] # s[j]

\* the step is a call pressed(kc)
Called(kc) == keys' = Append(keys, kc)

(* ------------------------------ claims --------------------------------- *)

\* C1: a build from more than 6 distinct ordinary key codes ends with all six
\* boot bytes (2..7) equal to ErrorRollOver.
C1_RollOverAfterSix ==
    (Len(keys) > 6 /\ AllOrdinary(keys) /\ Distinct(keys))
        => \A i \in BootIdx : report[i] = ErrorRollOver

\* C2: in a build from the empty report, a bitmap bit is set if and only if
\* an ordinary key code whose usage maps to that bit was pressed.
C2_BitmapIffPressed ==
    \A p \in 0..(BitmapBits - 1) :
        BitmapBit(report, p)
            <=> \E i \in 1..Len(keys) :
                    IsOrdinary(keys[i]) /\ InBitmap(keys[i]) /\ BitPos(keys[i]) = p

\* C3: a build from at most 6 ordinary key codes has bytes 2..7 equal to the
\* codes in press order followed by zeros, and every pressed code that has a
\* bitmap position has its bit set.
C3_BootInPressOrder ==
    (Len(keys) <= 6 /\ AllOrdinary(keys))
        => /\ \A j \in 0..5 :
                report[2 + j] = (IF j < Len(keys) THEN keys[j + 1] ELSE 0)
           /\ \A i \in 1..Len(keys) :
                InBitmap(keys[i]) => BitmapBit(report, BitPos(keys[i]))

C3_Witness ==
    /\ Len(keys) = 6 /\ AllOrdinary(keys)
    /\ keys[1] = KbB /\ keys[2] = KbF13 /\ keys[6] = KbA
    /\ report[2] = KbB /\ report[3] = KbF13 /\ report[7] = KbA
    /\ BitmapBit(report, KbA) /\ BitmapBit(report, KbB)

\* C4: a call pressed(kc) with kc below 4 or at or above 104 sets no bit of
\* bytes 8..20, whatever the report held before.
C4_OutOfRangeSetsNoBit ==
    [][\A kc \in 0..255 :
          (Called(kc) /\ (kc < 4 \/ kc >= BitmapBits))
              => \A i \in BitmapIdx : \A b \in 0..7 :
                    TestBit(report'[i], b) => TestBit(report[i], b)]_vars

\* C5: a call pressed(kc) with a global-error code sets all six boot bytes to
\* the code's raw value and leaves byte 0, byte 1 and bytes 8..20 unchanged.
C5_ErrorCodeFillsBoot ==
    [][\A kc \in {ErrorRollOver, PostFail, ErrorUndefined} :
          Called(kc)
              => /\ \A i \in BootIdx : report'[i] = kc
                 /\ \A i \in {0, 1} \cup BitmapIdx : report'[i] = report[i]]_vars

\* a modifier and five ordinary codes were recorded, then PostFail replaced
\* the whole boot array
C5_Witness ==
    /\ Len(keys) = 7 /\ keys[7] = PostFail /\ keys[1] = LShift
    /\ \A i \in 2..6 : IsOrdinary(keys[i])
    /\ \A i \in BootIdx : report[i] = PostFail
    /\ report[0] = 2 /\ BitmapBit(report, KbA)

\* C6: in a build from ordinary key codes inside the bitmap's range, of any
\* length, every pressed code has its bitmap bit set, also once the boot
\* array has overflowed.
C6_BitmapIndependentOfBoot ==
    (\A i \in 1..Len(keys) : IsOrdinary(keys[i]) /\ InBitmap(keys[i]))
        => \A i \in 1..Len(keys) : BitmapBit(report, BitPos(keys[i]))

\* usages 4..10 pressed in order: seven keys, seven bits
C6_Witness ==
    /\ keys = <<4, 5, 6, 7, 8, 9, 10>>
    /\ \A p \in 4..10 : BitmapBit(report, p)
    /\ \A i \in BootIdx : report[i] # 0

\* C7: a call pressed(kc) with a modifier code (0xE0..0xE7) sets the bit of
\* byte 0 at position kc - 0xE0, changes no other bit of byte 0 and changes
\* none of bytes 1..20.
C7_ModifierSetsOneBit ==
    [][\A kc \in LCtrl..RGui :
          Called(kc)
              => /\ \A b \in 0..7 :
                      TestBit(report'[0], b)
                          <=> (b = kc - LCtrl \/ TestBit(report[0], b))
                 /\ \A i \in 1..(ReportLen - 1) : report'[i] = report[i]]_vars

\* RGui pressed after LCtrl and an ordinary key: bits 0 and 7 of byte 0
C7_Witness ==
    /\ Len(keys) = 3 /\ keys[1] = LCtrl /\ keys[2] = KbA /\ keys[3] = RGui
    /\ report[0] = 129 /\ report[2] = KbA

\* C9: the reserved byte (byte 1) is 0 in every reachable report and the
\* report is 21 bytes long.
C9_ReservedZero ==
    /\ report[1] = 0
    /\ DOMAIN report = 0..20
    /\ Len(as_bytes(report)) = 21

\* a report with a modifier, a boot entry and a bitmap bit recorded
C9_Witness ==
    /\ report[0] # 0 /\ report[2] # 0 /\ report[3] # 0
    /\ \E i \in BitmapIdx : report[i] # 0
    /\ report[1] = 0

Swap(s, i, j) ==
    [k \in 1..Len(s) |-> IF k = i THEN s[j] ELSE IF k = j THEN s[i] ELSE s[k]]

SameModifiersAndBitmap(r1, r2) ==
    r1[0] = r2[0] /\ \A i \in BitmapIdx : r1[i] = r2[i]

\* C8: two orderings of the same multiset of key codes give reports with the
\* same byte 0 and the same bitmap bytes 8..20.  Every reordering is a chain
\* of exchanges of two elements, so the property is stated for the report of
\* a sequence and the report of the sequence with two elements exchanged.
C8_OrderIrrelevantOutsideBoot ==
    \A i, j \in 1..Len(keys) :
        SameModifiersAndBitmap(from_iter(Swap(keys, i, j)), report)

SetBits(r) == {p \in 0..(BitmapBits - 1) : BitmapBit(r, p)}

BootBytes(r) == [j \in 1..6 |-> r[1 + j]]

\* C10: the build from LeftShift, A, B, as the claim states it: byte 0 = 1,
\* byte 1 = 0, bytes 2..7 = 4,5,0,0,0,0 and exactly bitmap bits 0 and 1 set.
C10_Original ==
    keys = <<LShift, KbA, KbB>>
        => /\ report[0] = 1
           /\ report[1] = 0
           /\ BootBytes(report) = <<4, 5, 0, 0, 0, 0>>
           /\ SetBits(report) = {0, 1}

\* C10 (amended): the build from LeftShift, A, B yields byte 0 = 0b00000010,
\* byte 1 = 0, bytes 2..7 = 4,5,0,0,0,0 and exactly bitmap bits 4 and 5 set.
C10_ShiftAB ==
    keys = <<LShift, KbA, KbB>>
        => /\ report[0] = 2
           /\ report[1] = 0
           /\ BootBytes(report) = <<4, 5, 0, 0, 0, 0>>
           /\ SetBits(report) = {4, 5}

C10_Witness ==
    /\ keys = <<LShift, KbA, KbB>>
    /\ as_bytes(report) = <<2, 0, 4, 5, 0, 0, 0, 0, 48, 0, 0, 0, 0, 0, 0, 0, 0, 0, 0, 0, 0>>

\* C11: in a build from the empty report, bit i of byte 0 is set if and only
\* if modifier code 0xE0 + i was pressed; no other code changes byte 0.
C11_ModifierBitsIffPressed ==
    \A i \in 0..7 :
        TestBit(report[0], i) <=> \E k \in 1..Len(keys) : keys[k] = LCtrl + i

\* RGui and LShift pressed around an ordinary key and an error code
C11_Witness ==
    /\ keys = <<RGui, KbA, PostFail, LShift>>
    /\ report[0] = 130

Zeros == [i \in 1..ReportLen |-> 0]

\* C12: the empty pressed-set gives 21 zero bytes (default() and from_iter
\* over the empty sequence), and pressed(No) changes no byte of any report.
C12_EmptyAndNoOp ==
    /\ [](/\ keys = <<>> => as_bytes(report) = Zeros
          /\ as_bytes(from_iter(<<>>)) = Zeros
          /\ as_bytes(DefaultReport) = Zeros)
    /\ [][Called(No) => report' = report]_vars

\* No pressed on a report that already holds a modifier and a key
C12_Witness ==
    /\ keys = <<LCtrl, KbB, No>>
    /\ report[0] = 1 /\ report[2] = KbB /\ report[3] = 0

\* C13: from_iter is one pressed() per element with no deduplication: an
\* ordinary code repeated k times (1 <= k <= 6) fills the first k boot slots,
\* the rest stay zero, and the bitmap is that of a single application.
C13_RepeatsFillSlots ==
    (/\ Len(keys) >= 1 /\ Len(keys) <= 6
     /\ IsOrdinary(keys[1])
     /\ \A i \in 1..Len(keys) : keys[i] = keys[1])
        => LET r == from_iter(keys)
           IN  /\ r = report
               /\ \A j \in 0..5 :
                    r[2 + j] = (IF j < Len(keys) THEN keys[1] ELSE 0)
               /\ \A i \in BitmapIdx : r[i] = pressed(DefaultReport, keys[1])[i]

C13_Witness ==
    /\ keys = <<KbA, KbA, KbA, KbA, KbA>>
    /\ BootBytes(report) = <<4, 4, 4, 4, 4, 0>>
    /\ SetBits(report) = {4}

\* C15: a call pressed(kc) with an ordinary code on a report whose six boot
\* bytes are all non-zero leaves all six boot bytes equal to ErrorRollOver.
C15_FullBootRollsOver ==
    [][\A kc \in 0..255 :
          (Called(kc) /\ IsOrdinary(kc) /\ \A i \in BootIdx : report[i] # 0)
              => \A i \in BootIdx : report'[i] = ErrorRollOver]_vars

\* C16: a call pressed(kc) with an ordinary code changes at most bytes 2..7
\* and the one bitmap bit of kc; bytes 0 and 1 and every other bitmap bit
\* keep their value.
C16_OrdinaryRegionIsolation ==
    [][\A kc \in 0..255 :
          (Called(kc) /\ IsOrdinary(kc))
              => /\ report'[0] = report[0]
                 /\ report'[1] = report[1]
                 /\ \A p \in 0..(BitmapBits - 1) :
                      (~InBitmap(kc) \/ p # BitPos(kc))
                          => (BitmapBit(report', p) <=> BitmapBit(report, p))]_vars

\* C17: an ordinary code v in 4..103 pressed on the empty report sets exactly
\* one bitmap bit, at position v - Usage Minimum: report byte 8 + position / 8
\* holds 1 << (position % 8) and every other bitmap byte is 0.
C17_ArmsMatchArithmetic ==
    (Len(keys) = 1 /\ keys[1] >= 4 /\ keys[1] <= 103)
        => LET position == keys[1] - UsageMinimum
           IN  /\ SetBits(report) = {position}
               /\ \A i \in BitmapIdx :
                    report[i] = (IF i = 8 + (position \div 8)
                                 THEN 2 ^ (position % 8) ELSE 0)

\* the last code of the last arm: bit 7 of byte 20
C17_Witness ==
    /\ keys = <<KbF12>>
    /\ report[20] = 128
    /\ \A i \in 8..19 : report[i] = 0

\* C18: the occupied boot slots form a prefix (a zero boot byte is followed
\* only by zero boot bytes), and a non-zero boot byte is the raw value of a
\* code pressed in this build or ErrorRollOver.
C18_BootPrefix ==
    /\ \A i \in BootIdx : report[i] = 0 => \A j \in i..7 : report[j] = 0
    /\ \A i \in BootIdx :
          report[i] # 0
              => (report[i] = ErrorRollOver \/ \E k \in 1..Len(keys) : keys[k] = report[i])

\* four ordinary codes recorded, two slots still empty
C18_Witness ==
    /\ keys = <<KbB, KbF13, KbA, KbB>>
    /\ BootBytes(report) = <<5, 104, 4, 5, 0, 0>>

\* C14: two builds from the same sequence of key codes give byte-identical
\* reports: the build under way and the build returned before it agree
\* whenever they were given the same codes in the same order.
C14_Deterministic ==
    keys = sent.keys => as_bytes(report) = as_bytes(sent.report)

\* the same three codes built twice in a row
C14_Witness ==
    /\ keys = <<LShift, KbA, PostFail>>
    /\ sent.keys = keys
    /\ sent.report = report
    /\ report[0] = 2 /\ report[2] = PostFail

\* the step is a call of update_state()
Updated == scans' = scans + 1

\* C19: after update_state(), get_switch_state(i) is true if and only if pin
\* i was read as low in that update, for every switch i in 0..20.
C19_StateIffLow ==
    scans > 0
        => \A i \in 0..(NumPins - 1) :
              get_switch_state(state, i) <=> pins[i] = "low"

\* C20: when the read of pin i fails in update_state(), bit i is cleared and
\* every other switch j read as low has its bit set by its own read or keeps
\* the value it had.
C20_ErrClearsOnlyOwnBit ==
    [][Updated
          => \A i \in 0..(NumPins - 1) :
                pins'[i] = "err"
                    => /\ ~get_switch_state(state', i)
                       /\ \A j \in (0..(NumPins - 1)) \ {i} :
                            pins'[j] = "low"
                                => \/ get_switch_state(state', j)
                                   \/ (get_switch_state(state', j)
                                         <=> get_switch_state(state, j))]_vars

TypeOK ==
    /\ report \in [0..(ReportLen - 1) -> Byte]
    /\ keys \in Seq(0..255)
    /\ sent.keys \in Seq(0..255)
    /\ sent.report \in [0..(ReportLen - 1) -> Byte]
    /\ state \in U32
    /\ pins \in [0..(NumPins - 1) -> PinLevels]
    /\ scans \in 0..MaxScans

====
